---- MODULE Spec2Model ----
(***************************************************************************)
(* Model of src/main.py: the batch NFT minting script.                     *)
(*                                                                         *)
(* The state is the module-level configuration, the input table, the       *)
(* chain's token balances, and the locals of main() and mint_nfts().  One   *)
(* action models one step of main(): reading the table, the early exits,   *)
(* the set-up of mint_nfts, one iteration of its loop (the whole call of    *)
(* check_balance_and_mint, the fold of its result and the pause), and the   *)
(* final reports.  The chain client and the Telegram endpoint are external: *)
(* each of their calls returns or raises as the environment chooses.        *)
(***************************************************************************)
EXTENDS Integers, Sequences, FiniteSets, TLC

\* ------------------------------------------------------------------ bounds
MaxRows == 2          \* rows of the input tables enumerated in full
MaxBalance == 2       \* largest token balance an address starts with
MaxStartNonce == 1    \* largest transaction count the chain reports at start
MaxRuns == 2          \* runs of the script over the same table (SpecRerun)

\* --------------------------------------------------------------- constants
THRESHOLD == 35       \* points needed to qualify
None == 0             \* Python's None as a returned tx_hash

\* ------------------------------------------------- addresses and the table
\* Checksum (canonical) addresses the table can name.
Addresses == {"0xAa", "0xbB", "0xCc"}

\* A cell of the wallet column is a spelling of one of the three addresses, a
\* string that is no hex address ("0xzz"), or no string at all (an empty
\* cell, "NaN").
IsString(cell) == cell # "NaN"

\* str.lower()
Lower(cell) ==
    CASE cell \in {"0xaa", "0xAA", "0xAa"} -> "0xaa"
      [] cell \in {"0xbb", "0xBB"} -> "0xbb"
      [] cell = "0xcc" -> "0xcc"
      [] OTHER -> cell

\* Web3.to_checksum_address: defined on hex addresses only
IsHexAddress(s) == s \in {"0xaa", "0xAA", "0xAa", "0xbb", "0xBB", "0xbB", "0xcc", "0xCc"}

ToChecksum(s) ==
    CASE Lower(s) = "0xaa" -> "0xAa"
      [] Lower(s) = "0xbb" -> "0xbB"
      [] Lower(s) = "0xcc" -> "0xCc"

NoAddress == "None"

convert_to_checksum_address(cell) ==
    IF IsString(cell) /\ IsHexAddress(Lower(cell))
    THEN ToChecksum(Lower(cell))
    ELSE NoAddress

\* A file pd.read_csv or the column selection raises on.
Unreadable == [readable |-> FALSE, rows |-> <<>>]

\* mutant: exactly 35 points do not qualify
IsQualifiedRow_Above(row) == row.points > THRESHOLD

IsQualifiedRow(row) == row.points >= THRESHOLD

IsConverted(addr) == addr # NoAddress

load_qualified_addresses(file) ==
    IF ~file.readable THEN <<>>
    ELSE LET qualified_df == SelectSeq(file.rows, IsQualifiedRow)
             converted == [k \in 1..Len(qualified_df) |->
                              convert_to_checksum_address(qualified_df[k].wallet)]
         IN SelectSeq(converted, IsConverted)

\* Tables the runs are started on.
Rows == ([wallet : {"0xaa", "0xbb", "0xcc"}, points : {THRESHOLD}])
        \cup {[wallet |-> "0xzz", points |-> THRESHOLD],
              [wallet |-> "0xAA", points |-> THRESHOLD - 1]}

RECURSIVE SeqsUpTo(_, _)
SeqsUpTo(S, n) ==
    IF n = 0 THEN {<<>>}
    ELSE LET shorter == SeqsUpTo(S, n - 1)
         IN shorter \cup {Append(s, x) : s \in {t \in shorter : Len(t) = n - 1}, x \in S}

\* The table of the three-address scenario: A, B and C qualify.
ScenarioTable ==
    [readable |-> TRUE,
     rows |-> <<[wallet |-> "0xaa", points |-> THRESHOLD],
                [wallet |-> "0xbb", points |-> THRESHOLD],
                [wallet |-> "0xcc", points |-> THRESHOLD]>>]

\* Tables the filter alone is run on: every spelling of a cell, and points
\* below, at and above the threshold.
WalletCells == {"0xaa", "0xAA", "0xAa", "0xbb", "0xzz", "NaN"}

FilterRows == [wallet : WalletCells, points : {THRESHOLD - 1, THRESHOLD, THRESHOLD + 1}]

FilterTables == {[readable |-> TRUE, rows |-> rows] : rows \in SeqsUpTo(FilterRows, MaxRows)}
                \cup {Unreadable}

Tables == {[readable |-> TRUE, rows |-> rows] : rows \in SeqsUpTo(Rows, MaxRows)}
          \cup {Unreadable, ScenarioTable}

\* ------------------------------------------------------------ the notifier
\* How one call of send_telegram_message can end: the early return without
\* credentials, a 200 response, another response, an exception in the post.
\* The function catches every exception and returns nothing in all four.
NotifyResults(configured) ==
    IF configured THEN {"sent", "non_200", "exception"} ELSE {"not_configured"}

Message(kind, address, successful, failed, total) ==
    [kind |-> kind, address |-> address, successful |-> successful,
     failed |-> failed, total |-> total]

send_telegram_message(message, result) ==
    [message |-> message, result |-> result]

\* mutant: the post is made outside the try block, so what it raises reaches
\* the caller
NotifierRaises_Uncaught(result) == result = "exception"

\* Whether a call that ends with this result raises into its caller: the whole
\* body is inside `try`, and `except Exception` only prints.
NotifierRaises(result) == FALSE

\* Where the caller is after a call: where it goes on when the call returned,
\* where the exception takes it when the call raised.
AfterNotify(result, returned, raised) ==
    IF NotifierRaises(result) THEN raised ELSE returned

\* ------------------------------------------------- check_balance_and_mint
\* The chain-client calls of one call, in the order the code makes them.
CallOrder == <<"balanceOf", "gas_price", "build_transaction", "sign_transaction",
               "send_raw_transaction", "wait_for_transaction_receipt">>

Stages == {CallOrder[k] : k \in 1..Len(CallOrder)}

StageIndex(stage) == CHOOSE k \in 1..Len(CallOrder) : CallOrder[k] = stage

CallsUpTo(stage) == SubSeq(CallOrder, 1, StageIndex(stage))

\* What the chain client can do during one call: one of its calls raises, or
\* none does and the receipt carries a status.
ChainResponses ==
    {[raises |-> stage, status |-> 0] : stage \in Stages}
    \cup {[raises |-> "none", status |-> status] : status \in {0, 1}}

\* mutant: the balance is asked for the minting account, which holds no token
balanceOf_OfSender(chain, address) == 0

\* contract.functions.balanceOf(address).call(), when it returns
balanceOf(chain, address) == chain[address]

\* balance of a step in which balanceOf did not return
NotRead == -1

\* mutant: only an address holding several tokens is skipped
HasToken_MoreThanOne(bal) == bal > 1

\* mutant: only an address holding exactly one token is skipped
HasToken_ExactlyOne(bal) == bal = 1

\* mutant: no balance stops the mint
HasToken_Never(bal) == FALSE

\* `if balance > 0`
HasToken(bal) == bal > 0

\* mutant: a rejected transaction returns the nonce it was given
ReceiptReturn_RejectionKeepsNonce(status, hash, nonce) ==
    IF status = 1
    THEN [tx_hash |-> hash, new_nonce |-> nonce + 1]
    ELSE [tx_hash |-> None, new_nonce |-> nonce]

\* the two returns after the receipt
ReceiptReturn(status, hash, nonce) ==
    IF status = 1
    THEN [tx_hash |-> hash, new_nonce |-> nonce + 1]
    ELSE [tx_hash |-> None, new_nonce |-> nonce + 1]

\* the return of the except block
ExceptionReturn(nonce) == [tx_hash |-> None, new_nonce |-> nonce]

\* the return of the skip branch
SkipReturn(nonce) == [tx_hash |-> None, new_nonce |-> nonce]

\* One call.  bal is what balanceOf returns if it returns, raises the call that
\* raises ("none" if none does), status the receipt's status, hash the hash
\* send_raw_transaction returns.  The result holds the returned pair, the
\* calls made, the message handed to the notifier and whether the transaction
\* was broadcast.
check_balance_and_mint(address, nonce, successful_count, failed_count, total_count, bal, raises, status, hash) ==
    IF raises = "balanceOf"
    THEN [ret |-> ExceptionReturn(nonce), outcome |-> "exception", stage |-> raises,
          calls |-> CallsUpTo(raises), sent |-> FALSE,
          message |-> Message("error", address, successful_count, failed_count + 1,
                              total_count)]
    ELSE IF HasToken(bal)
    THEN [ret |-> SkipReturn(nonce), outcome |-> "skipped", stage |-> "none",
          calls |-> CallsUpTo("balanceOf"), sent |-> FALSE,
          message |-> Message("skip", address, successful_count, failed_count,
                              total_count)]
    ELSE IF raises # "none"
    THEN [ret |-> ExceptionReturn(nonce), outcome |-> "exception", stage |-> raises,
          calls |-> CallsUpTo(raises),
          sent |-> (raises = "wait_for_transaction_receipt"),
          message |-> Message("error", address, successful_count, failed_count + 1,
                              total_count)]
    ELSE IF status = 1
    THEN [ret |-> ReceiptReturn(status, hash, nonce), outcome |-> "minted",
          stage |-> "none", calls |-> CallOrder, sent |-> TRUE,
          message |-> Message("success", address, successful_count + 1, failed_count,
                              total_count)]
    ELSE [ret |-> ReceiptReturn(status, hash, nonce), outcome |-> "rejected",
          stage |-> "none", calls |-> CallOrder, sent |-> TRUE,
          message |-> Message("failed", address, successful_count, failed_count + 1,
                              total_count)]

\* mutant: the branch that skips an address sends nothing
PathMessages_SilentSkip(r) == IF r.outcome = "skipped" THEN <<>> ELSE <<r.message>>

\* The messages one call hands to the notifier: each of the four paths (skip,
\* success, rejection, except block) calls send_telegram_message once.
PathMessages(r) == <<r.message>>

\* ---------------------------------------------------------------- mint_nfts
\* `if not PRIVATE_KEY or not CONTRACT_ADDRESS`
MissingEnv(private_key, contract_address) == ~private_key \/ ~contract_address

Truthy(tx_hash) == tx_hash # None

\* The fold of one returned pair into the loop's locals.
FoldResult(tx_hash, new_nonce, address, old_nonce, successful, failed) ==
    IF Truthy(tx_hash)
    THEN [nonce |-> new_nonce,
          successful_mints |->
              Append(successful, [address |-> address, transaction_hash |-> tx_hash]),
          failed_mints |-> failed]
    ELSE IF new_nonce > old_nonce
    THEN [nonce |-> new_nonce,
          successful_mints |-> successful,
          failed_mints |->
              Append(failed, [address |-> address, error |-> "Transaction failed"])]
    ELSE [nonce |-> old_nonce, successful_mints |-> successful, failed_mints |-> failed]

\* mutant: the transaction count is read again for every address
RequeriesNonce_EachAddress(index) == TRUE

\* Whether the loop body reads the transaction count for the index-th address:
\* it never does, the nonce it passes on is the local one.
RequeriesNonce(index) == FALSE

\* mutant: the pause follows every address, the last one too
PausesAfter_Always(index, total) == index <= total

\* `if i < total_addresses`, i counting from 1
PausesAfter(index, total) == index < total

\* mutant: the loop is left at the first address that was not minted
AfterIteration_StopOnFailure(index, total, tx_hash) ==
    IF index < total /\ tx_hash # None THEN "loop" ELSE "summary"

\* mutant: the loop is never left
AfterIteration_NeverLeaves(index, total, tx_hash) == "loop"

\* Where main() is after the iteration for the index-th address: the for loop
\* goes on to the next address whatever the call returned.
AfterIteration(index, total, tx_hash) == IF index < total THEN "loop" ELSE "summary"

\* ------------------------------------------------------------------- state
VARIABLES
    PRIVATE_KEY,          \* TRUE iff the environment sets it
    CONTRACT_ADDRESS,     \* TRUE iff the environment sets it
    TELEGRAM,             \* TRUE iff both Telegram credentials are set
    csv,                  \* the input table, or Unreadable
    balance,              \* chain: tokens held by each address
    run,                  \* number of the current run of the script
    minted_before,        \* addresses minted successfully by earlier runs
    pc,                   \* position of main()
    qualified_addresses,  \* main's local
    nonce,                \* mint_nfts' local
    successful_mints,     \* mint_nfts' local
    failed_mints,         \* mint_nfts' local
    i,                    \* addresses processed so far by the loop
    initial_nonce,        \* what get_transaction_count returned
    broadcasts,           \* transactions send_raw_transaction accepted
    outcomes,             \* address and outcome of each call of check_balance_and_mint
    notifications,        \* messages handed to send_telegram_message so far
    chain_called,         \* TRUE once a chain-client call was made
    txcount_reads,        \* calls of get_transaction_count so far
    balance_queries,      \* calls of balanceOf so far
    sleeps,               \* pauses so far
    last                  \* what the last step did

vars == <<PRIVATE_KEY, CONTRACT_ADDRESS, TELEGRAM, csv, balance, run, minted_before,
          pc, qualified_addresses, nonce, successful_mints, failed_mints, i,
          initial_nonce, broadcasts, outcomes, notifications, chain_called,
          txcount_reads, balance_queries, sleeps, last>>

config == <<PRIVATE_KEY, CONTRACT_ADDRESS, TELEGRAM, csv>>

\* --------------------------------------------------------------------- main
\* mutant: only a missing list, never an empty one, ends main early
NoQualified_OnlyNone(addresses) == FALSE

\* `if not qualified_addresses`
NoQualified(addresses) == addresses = <<>>

NoStep == [op |-> "none", address |-> NoAddress, outcome |-> "none", stage |-> "none",
           balance |-> 0, calls |-> <<>>, messages |-> <<>>, sent |-> FALSE,
           nonce_before |-> 0, successful_before |-> 0, failed_before |-> 0]

Step(op, calls, messages) ==
    [NoStep EXCEPT !.op = op, !.calls = calls, !.messages = messages,
                   !.nonce_before = nonce,
                   !.successful_before = Len(successful_mints),
                   !.failed_before = Len(failed_mints)]

ChainCallsIn(calls) ==
    Len(SelectSeq(calls, LAMBDA c : c \notin {"send_telegram_message", "sleep"}))

\* Balances of addresses the table does not name play no part in a run.
Listed(file, a) == \E k \in 1..Len(file.rows) : convert_to_checksum_address(file.rows[k].wallet) = a

\* The three addresses are interchangeable: a table is started on only in the
\* spelling where a new address is the next one of AddressOrder.
AddressOrder == <<"0xAa", "0xbB", "0xCc">>

Rank(a) == CHOOSE k \in 1..Len(AddressOrder) : AddressOrder[k] = a

FirstUseOrdered(addresses) ==
    \A k \in 1..Len(addresses) :
        Rank(addresses[k]) <= 1 + Cardinality({addresses[j] : j \in 1..(k - 1)})

Fresh ==
    /\ pc = "main"
    /\ qualified_addresses = <<>>
    /\ nonce = 0
    /\ successful_mints = <<>>
    /\ failed_mints = <<>>
    /\ i = 0
    /\ initial_nonce = 0
    /\ broadcasts = <<>>
    /\ outcomes = <<>>
    /\ notifications = <<>>
    /\ chain_called = FALSE
    /\ txcount_reads = 0
    /\ balance_queries = 0
    /\ sleeps = 0
    /\ last = NoStep

Init ==
    /\ PRIVATE_KEY \in BOOLEAN
    /\ CONTRACT_ADDRESS \in BOOLEAN
    /\ TELEGRAM \in BOOLEAN
    /\ csv \in Tables
    /\ FirstUseOrdered(load_qualified_addresses(csv))
    /\ balance \in [Addresses -> 0..MaxBalance]
    /\ \A a \in Addresses : Listed(csv, a) \/ balance[a] = 0
    /\ run = 1
    /\ minted_before = {}
    /\ Fresh

\* main, line 233: the table is read and filtered.
LoadQualifiedAddresses ==
    /\ pc = "main"
    /\ pc' = "loaded"
    /\ qualified_addresses' = load_qualified_addresses(csv)
    /\ last' = Step("load_qualified_addresses", <<>>, <<>>)
    /\ UNCHANGED <<config, balance, run, minted_before, nonce, successful_mints,
                   failed_mints, i, initial_nonce, broadcasts, outcomes,
                   notifications, chain_called, txcount_reads, balance_queries, sleeps>>

\* main, lines 236-239: nothing qualified.
MainNoQualified ==
    /\ pc = "loaded"
    /\ NoQualified(qualified_addresses)
    /\ \E result \in NotifyResults(TELEGRAM) :
          /\ last' = Step("no_qualified", <<"send_telegram_message">>,
                       <<send_telegram_message(
                               Message("no_qualified", NoAddress, 0, 0, 0), result)>>)
          /\ pc' = AfterNotify(result, "done", "crashed")
    /\ notifications' = Append(notifications, Message("no_qualified", NoAddress, 0, 0, 0))
    /\ UNCHANGED <<config, balance, run, minted_before, qualified_addresses, nonce,
                   successful_mints, failed_mints, i, initial_nonce, broadcasts,
                   outcomes, chain_called, txcount_reads, balance_queries, sleeps>>

\* mint_nfts, lines 173-175: a required variable is missing.
MintNftsMissingEnv ==
    /\ pc = "loaded"
    /\ ~NoQualified(qualified_addresses)
    /\ MissingEnv(PRIVATE_KEY, CONTRACT_ADDRESS)
    /\ successful_mints' = <<>>
    /\ failed_mints' = <<>>
    /\ last' = Step("missing_env", <<>>, <<>>)
    /\ pc' = "summary"
    /\ UNCHANGED <<config, balance, run, minted_before, qualified_addresses, nonce, i,
                   initial_nonce, broadcasts, outcomes, notifications, chain_called,
                   txcount_reads, balance_queries, sleeps>>

\* mint_nfts, lines 177-193: the start message, the contract, the account and
\* the transaction count.  Any of the last three can raise; the exception
\* leaves mint_nfts and reaches main's except block.
SetupRaises == {"none", "contract", "from_key", "get_transaction_count"}

MintNftsSetup ==
    /\ pc = "loaded"
    /\ ~NoQualified(qualified_addresses)
    /\ ~MissingEnv(PRIVATE_KEY, CONTRACT_ADDRESS)
    /\ \E raises \in SetupRaises, count \in 0..MaxStartNonce,
          result \in NotifyResults(TELEGRAM) :
          LET start == send_telegram_message(Message("start", NoAddress, 0, 0, 0), result)
              reads == raises \in {"none", "get_transaction_count"}
              calls == <<"send_telegram_message">>
                       \o (IF reads THEN <<"get_transaction_count">> ELSE <<>>)
          IN /\ last' = [Step("setup", calls, <<start>>) EXCEPT !.stage = raises,
                            !.outcome = IF raises = "none" THEN "none" ELSE "exception"]
             /\ txcount_reads' = txcount_reads + (IF reads THEN 1 ELSE 0)
             /\ chain_called' = (chain_called \/ reads)
             /\ notifications' = Append(notifications, start.message)
             /\ IF raises = "none"
                THEN /\ nonce' = count
                     /\ initial_nonce' = count
                     /\ pc' = AfterNotify(result,
                                           IF Len(qualified_addresses) = 0
                                           THEN "summary" ELSE "loop",
                                           "critical")
                ELSE /\ UNCHANGED <<nonce, initial_nonce>>
                     /\ pc' = "critical"
    /\ successful_mints' = <<>>
    /\ failed_mints' = <<>>
    /\ i' = 0
    /\ UNCHANGED <<config, balance, run, minted_before, qualified_addresses, broadcasts,
                   outcomes, balance_queries, sleeps>>

\* mint_nfts, lines 195-226: one iteration of the loop.
MintLoopIteration ==
    /\ pc = "loop"
    /\ i < Len(qualified_addresses)
    /\ \E response \in ChainResponses, result \in NotifyResults(TELEGRAM) :
          LET raises == response.raises
              status == response.status
              total_addresses == Len(qualified_addresses)
              address == qualified_addresses[i + 1]
              r == check_balance_and_mint(address, nonce, Len(successful_mints),
                                          Len(failed_mints), total_addresses,
                                          balanceOf(balance, address), raises, status,
                                          Len(broadcasts) + 1)
              f == FoldResult(r.ret.tx_hash, r.ret.new_nonce, address, nonce,
                              successful_mints, failed_mints)
              pauses == PausesAfter(i + 1, total_addresses)
              messages == PathMessages(r)
              requeries == RequeriesNonce(i + 1)
              calls == (IF requeries THEN <<"get_transaction_count">> ELSE <<>>)
                       \o r.calls
                       \o [k \in 1..Len(messages) |-> "send_telegram_message"]
                       \o (IF pauses THEN <<"sleep">> ELSE <<>>)
          IN /\ nonce' = f.nonce
             /\ successful_mints' = f.successful_mints
             /\ failed_mints' = f.failed_mints
             /\ broadcasts' = IF r.sent
                              THEN Append(broadcasts, [address |-> address, nonce |-> nonce])
                              ELSE broadcasts
             /\ balance' = IF r.outcome = "minted"
                           THEN [balance EXCEPT ![address] = @ + 1]
                           ELSE balance
             /\ chain_called' = (chain_called \/ ChainCallsIn(r.calls) > 0)
             /\ sleeps' = sleeps + (IF pauses THEN 1 ELSE 0)
             /\ pc' = AfterNotify(result,
                                   AfterIteration(i + 1, total_addresses, r.ret.tx_hash),
                                   "critical")
             /\ outcomes' = Append(outcomes, [address |-> address, outcome |-> r.outcome])
             /\ notifications' = notifications \o messages
             /\ txcount_reads' = txcount_reads + (IF requeries THEN 1 ELSE 0)
             /\ last' = [Step("iteration", calls,
                              [k \in 1..Len(messages) |->
                                  send_telegram_message(messages[k], result)])
                         EXCEPT !.address = address, !.outcome = r.outcome,
                                !.stage = r.stage, !.sent = r.sent,
                                !.balance = IF r.stage = "balanceOf" THEN NotRead
                                            ELSE balanceOf(balance, address)]
    /\ i' = i + 1
    /\ balance_queries' = balance_queries + 1
    /\ UNCHANGED <<config, run, minted_before, qualified_addresses, initial_nonce>>

\* main, lines 245-252: the summary.
MainSummary ==
    /\ pc = "summary"
    /\ \E result \in NotifyResults(TELEGRAM) :
          /\ last' = Step("summary", <<"send_telegram_message">>,
                          <<send_telegram_message(
                               Message("summary", NoAddress, Len(successful_mints),
                                       Len(failed_mints), Len(qualified_addresses)),
                               result)>>)
          /\ pc' = AfterNotify(result, "summary_successful", "critical")
    /\ notifications' = Append(notifications,
                               Message("summary", NoAddress, Len(successful_mints),
                                       Len(failed_mints), Len(qualified_addresses)))
    /\ UNCHANGED <<config, balance, run, minted_before, qualified_addresses, nonce,
                   successful_mints, failed_mints, i, initial_nonce, broadcasts,
                   outcomes, chain_called, txcount_reads, balance_queries, sleeps>>

\* main, lines 254-260: the list of successful mints, if there is any.
MainSuccessfulList ==
    /\ pc = "summary_successful"
    /\ IF successful_mints # <<>>
       THEN /\ \E result \in NotifyResults(TELEGRAM) :
                  /\ last' = Step("successful_list", <<"send_telegram_message">>,
                                  <<send_telegram_message(
                                       Message("successful_list", NoAddress,
                                               Len(successful_mints), Len(failed_mints),
                                               Len(qualified_addresses)),
                                       result)>>)
                  /\ pc' = AfterNotify(result, "summary_failed", "critical")
            /\ notifications' = Append(notifications,
                                       Message("successful_list", NoAddress,
                                               Len(successful_mints), Len(failed_mints),
                                               Len(qualified_addresses)))
       ELSE /\ last' = Step("successful_list", <<>>, <<>>)
            /\ pc' = "summary_failed"
            /\ UNCHANGED notifications
    /\ UNCHANGED <<config, balance, run, minted_before, qualified_addresses, nonce,
                   successful_mints, failed_mints, i, initial_nonce, broadcasts,
                   outcomes, chain_called, txcount_reads, balance_queries, sleeps>>

\* main, lines 262-268: the list of failed mints, if there is any.
MainFailedList ==
    /\ pc = "summary_failed"
    /\ IF failed_mints # <<>>
       THEN /\ \E result \in NotifyResults(TELEGRAM) :
                  /\ last' = Step("failed_list", <<"send_telegram_message">>,
                                  <<send_telegram_message(
                                       Message("failed_list", NoAddress,
                                               Len(successful_mints), Len(failed_mints),
                                               Len(qualified_addresses)),
                                       result)>>)
                  /\ pc' = AfterNotify(result, "done", "critical")
            /\ notifications' = Append(notifications,
                                       Message("failed_list", NoAddress,
                                               Len(successful_mints), Len(failed_mints),
                                               Len(qualified_addresses)))
       ELSE /\ last' = Step("failed_list", <<>>, <<>>)
            /\ pc' = "done"
            /\ UNCHANGED notifications
    /\ UNCHANGED <<config, balance, run, minted_before, qualified_addresses, nonce,
                   successful_mints, failed_mints, i, initial_nonce, broadcasts,
                   outcomes, chain_called, txcount_reads, balance_queries, sleeps>>

\* mutant: the summary is built after the try statement, so it follows the
\* report of an exception too
MainCritical_ThenSummary ==
    /\ pc = "critical"
    /\ \E result \in NotifyResults(TELEGRAM) :
          /\ last' = Step("critical", <<"send_telegram_message">>,
                          <<send_telegram_message(
                               Message("critical", NoAddress, 0, 0, 0), result)>>)
          /\ pc' = AfterNotify(result, "summary", "crashed")
    /\ notifications' = Append(notifications, Message("critical", NoAddress, 0, 0, 0))
    /\ UNCHANGED <<config, balance, run, minted_before, qualified_addresses, nonce,
                   successful_mints, failed_mints, i, initial_nonce, broadcasts,
                   outcomes, chain_called, txcount_reads, balance_queries, sleeps>>

\* main, lines 270-273: an exception left mint_nfts.
MainCritical ==
    /\ pc = "critical"
    /\ \E result \in NotifyResults(TELEGRAM) :
          /\ last' = Step("critical", <<"send_telegram_message">>,
                          <<send_telegram_message(
                               Message("critical", NoAddress, 0, 0, 0), result)>>)
          /\ pc' = AfterNotify(result, "done", "crashed")
    /\ notifications' = Append(notifications, Message("critical", NoAddress, 0, 0, 0))
    /\ UNCHANGED <<config, balance, run, minted_before, qualified_addresses, nonce,
                   successful_mints, failed_mints, i, initial_nonce, broadcasts,
                   outcomes, chain_called, txcount_reads, balance_queries, sleeps>>

Next ==
    \/ LoadQualifiedAddresses
    \/ MainNoQualified
    \/ MintNftsMissingEnv
    \/ MintNftsSetup
    \/ MintLoopIteration
    \/ MainSummary
    \/ MainSuccessfulList
    \/ MainFailedList
    \/ MainCritical

Spec == Init /\ [][Next]_vars

\* The run under the assumption that every call returns: main() is sequential
\* code, so whenever it has a next step it takes it.
SpecLive == Init /\ [][Next]_vars /\ WF_vars(Next)

\* The script is started again on the same table and configuration, against
\* the chain as the finished run left it.
Rerun ==
    /\ pc = "done"
    /\ run < MaxRuns
    /\ run' = run + 1
    /\ minted_before' = minted_before
                         \cup {successful_mints[k].address : k \in 1..Len(successful_mints)}
    /\ pc' = "main"
    /\ qualified_addresses' = <<>>
    /\ nonce' = 0
    /\ successful_mints' = <<>>
    /\ failed_mints' = <<>>
    /\ i' = 0
    /\ initial_nonce' = 0
    /\ broadcasts' = <<>>
    /\ outcomes' = <<>>
    /\ notifications' = <<>>
    /\ chain_called' = FALSE
    /\ txcount_reads' = 0
    /\ balance_queries' = 0
    /\ sleeps' = 0
    /\ last' = NoStep
    /\ UNCHANGED <<config, balance>>

NextRerun == Next \/ Rerun

\* Delivery of the notifications plays no part in what a second run does.
InitRerun == Init /\ TELEGRAM = FALSE

SpecRerun == InitRerun /\ [][NextRerun]_vars

\* The filter on its own: main's first step on every table of FilterTables.
InitFilter ==
    /\ PRIVATE_KEY = TRUE
    /\ CONTRACT_ADDRESS = TRUE
    /\ TELEGRAM = FALSE
    /\ csv \in FilterTables
    /\ balance = [a \in Addresses |-> 0]
    /\ run = 1
    /\ minted_before = {}
    /\ Fresh

NextFilter == LoadQualifiedAddresses

SpecFilter == InitFilter /\ [][NextFilter]_vars

\* ------------------------------------------------------------------ claims
Iterated == last.op = "iteration"

BalanceReturned == Iterated /\ last.balance # NotRead

Built == \E k \in 1..Len(last.calls) : last.calls[k] = "build_transaction"

AfterLoop == {"summary", "summary_successful", "summary_failed", "done"}

\* C1: after any number of addresses, the local nonce is the initial nonce plus
\* the number of transactions that were broadcast, a broadcast whose wait for
\* the receipt raised included.
C1_NonceCountsBroadcasts == nonce = initial_nonce + Len(broadcasts)

\* C2: the nonces of the run's broadcast transactions are initial_nonce,
\* initial_nonce + 1, ... in order: none repeated, none skipped.
C2_BroadcastNoncesGapFree ==
    \A k \in 1..Len(broadcasts) : broadcasts[k].nonce = initial_nonce + k - 1

\* C3: an address for which a call raised leaves the nonce unchanged and adds
\* exactly one entry to the failed list.
C3_ExceptionIsTallied ==
    (Iterated /\ last.outcome = "exception")
        => /\ nonce = last.nonce_before
           /\ Len(failed_mints) = last.failed_before + 1
           /\ Len(successful_mints) = last.successful_before

ScenarioRan ==
    /\ csv = ScenarioTable
    /\ pc = "done"
    /\ outcomes = <<[address |-> "0xAa", outcome |-> "minted"],
                    [address |-> "0xbB", outcome |-> "skipped"],
                    [address |-> "0xCc", outcome |-> "rejected"]>>
    /\ balance["0xbB"] = 1

\* C4 as claimed: an address whose balance is 1 is not minted to, leaves the
\* nonce unchanged and counts as one more success; the scenario A (minted),
\* B (balance 1), C (rejected) ends with 2 successes, 1 failure and the nonce
\* advanced by 2.
C4_HeldCountsAsSuccess ==
    /\ (BalanceReturned /\ last.balance = 1)
          => /\ ~last.sent
             /\ nonce = last.nonce_before
             /\ Len(successful_mints) = last.successful_before + 1
    /\ ScenarioRan
          => /\ Len(successful_mints) = 2
             /\ Len(failed_mints) = 1
             /\ nonce = initial_nonce + 2

\* C4 as amended: an address whose balance is 1 is not minted to (nothing is
\* built or broadcast) and leaves the nonce and both tallies unchanged; the
\* scenario ends with 1 success, 1 failure and the nonce advanced by 2.
C4_HeldIsSkipped ==
    /\ (BalanceReturned /\ last.balance = 1)
          => /\ ~last.sent
             /\ ~Built
             /\ last.outcome = "skipped"
             /\ nonce = last.nonce_before
             /\ Len(successful_mints) = last.successful_before
             /\ Len(failed_mints) = last.failed_before
    /\ ScenarioRan
          => /\ Len(successful_mints) = 1
             /\ Len(failed_mints) = 1
             /\ nonce = initial_nonce + 2

C4_Witness == ScenarioRan

\* C5: an address whose balance is greater than 1 changes neither tally nor
\* the nonce, and nothing is built or broadcast for it.
C5_HeldMultipleChangesNothing ==
    (BalanceReturned /\ last.balance > 1)
        => /\ ~last.sent
           /\ ~Built
           /\ nonce = last.nonce_before
           /\ Len(successful_mints) = last.successful_before
           /\ last.outcome = "skipped"
           /\ Len(failed_mints) = last.failed_before

C5_Witness == BalanceReturned /\ last.balance > 1 /\ Len(successful_mints) > 0

\* C6: a broadcast transaction confirmed with status success advances the
\* nonce and the success tally by one each and leaves the failure tally; one
\* confirmed with status rejection advances the nonce and the failure tally by
\* one each and leaves the success tally.
C6_ConfirmedOutcomes ==
    /\ (Iterated /\ last.outcome = "minted")
          => /\ last.balance = 0
             /\ last.sent
             /\ nonce = last.nonce_before + 1
             /\ Len(successful_mints) = last.successful_before + 1
             /\ Len(failed_mints) = last.failed_before
    /\ (Iterated /\ last.outcome = "rejected")
          => /\ last.balance = 0
             /\ last.sent
             /\ nonce = last.nonce_before + 1
             /\ Len(failed_mints) = last.failed_before + 1
             /\ Len(successful_mints) = last.successful_before

C6_Witness ==
    /\ Iterated
    /\ last.outcome = "rejected"
    /\ Len(successful_mints) > 0

\* C7: in a later run over the same table, an address an earlier run minted
\* successfully is never minted to again: nothing is built or broadcast for
\* it, the nonce stays, and whenever its balance is read it is skipped.
C7_RerunSkipsMinted ==
    /\ \A k \in 1..Len(broadcasts) : broadcasts[k].address \notin minted_before
    /\ (Iterated /\ last.address \in minted_before)
          => /\ ~last.sent
             /\ ~Built
             /\ nonce = last.nonce_before
             /\ BalanceReturned => last.outcome = "skipped"

C7_Witness ==
    /\ run = 2
    /\ Iterated
    /\ last.address \in minted_before
    /\ last.outcome = "skipped"
    /\ last.balance = 1

\* C8: the loop hands the addresses to check_balance_and_mint once each and in
\* list order; no outcome ends it early, and a run that entered the loop ends
\* with the summary sent.
C8_EveryAddressOnceInOrder ==
    /\ Len(outcomes) = i
    /\ i <= Len(qualified_addresses)
    /\ \A k \in 1..i : outcomes[k].address = qualified_addresses[k]
    /\ pc = "loop" => i < Len(qualified_addresses)
    /\ i > 0 /\ pc # "loop" => /\ pc \in AfterLoop
                               /\ i = Len(qualified_addresses)
    /\ i > 0 /\ pc = "done"
          => \E k \in 1..Len(notifications) : notifications[k].kind = "summary"

C8_Witness ==
    /\ pc = "done"
    /\ Len(outcomes) = 3
    /\ outcomes[1].outcome = "exception"
    /\ outcomes[2].outcome = "rejected"
    /\ outcomes[3].outcome = "minted"

C10_MissingEnvIsNotified ==
    (pc = "done" /\ qualified_addresses # <<>> /\ (~PRIVATE_KEY \/ ~CONTRACT_ADDRESS))
        => /\ balance_queries = 0
           /\ broadcasts = <<>>
           /\ \E k \in 1..Len(notifications) :
                 notifications[k].kind \in {"missing_env", "critical"}

KindCount(kinds) ==
    Cardinality({k \in 1..Len(notifications) : notifications[k].kind \in kinds})

SetupRaised == last.op = "setup" /\ last.outcome = "exception"

\* C11: an exception that leaves mint_nfts before the loop (setting up the
\* contract or the account, reading the transaction count) takes main to its
\* except block, which reports it with one notification and ends the run: no
\* address is processed and no summary is sent.
C11_EscapedExceptionIsReported ==
    /\ SetupRaised => pc = "critical"
    /\ pc = "critical" => /\ SetupRaised
                          /\ KindCount({"critical"}) = 0
    /\ KindCount({"critical"}) > 0
          => /\ pc = "done"
             /\ last.op = "critical"
             /\ KindCount({"critical"}) = 1
             /\ notifications[Len(notifications)].kind = "critical"
             /\ KindCount({"summary", "successful_list", "failed_list"}) = 0
             /\ outcomes = <<>>
             /\ balance_queries = 0

C11_Witness ==
    /\ pc = "done"
    /\ last.op = "critical"
    /\ txcount_reads = 1

NotifyIndexes == {k \in 1..Len(last.calls) : last.calls[k] = "send_telegram_message"}

ExpectedKind(outcome) ==
    CASE outcome = "skipped" -> "skip"
      [] outcome = "minted" -> "success"
      [] outcome = "rejected" -> "failed"
      [] outcome = "exception" -> "error"

\* C12: every processed address gets exactly one status notification, on each
\* of the paths; it is sent after the chain calls that decide the address's
\* outcome and before anything else happens (the pause, the next address's
\* balance query).
C12_OneNotificationPerAddress ==
    /\ Iterated
          => /\ Cardinality(NotifyIndexes) = 1
             /\ last.calls[1] = "balanceOf"
             /\ \A n \in NotifyIndexes :
                   /\ \A k \in 1..(n - 1) : last.calls[k] \in Stages
                   /\ \A k \in (n + 1)..Len(last.calls) : last.calls[k] = "sleep"
             /\ Len(last.messages) = 1
             /\ last.messages[1].message.address = last.address
             /\ last.messages[1].message.kind = ExpectedKind(last.outcome)
    /\ (pc = "loop" \/ (pc \in AfterLoop /\ i > 0))
          => /\ Len(notifications) >= 1 + i
             /\ notifications[1].kind = "start"
             /\ \A k \in 1..i :
                   /\ notifications[1 + k].address = outcomes[k].address
                   /\ notifications[1 + k].kind = ExpectedKind(outcomes[k].outcome)
             /\ KindCount({"skip", "success", "failed", "error"}) = i

C12_Witness ==
    /\ pc = "done"
    /\ Len(outcomes) = 3
    /\ outcomes[1].outcome = "skipped"
    /\ outcomes[2].outcome = "exception"
    /\ outcomes[3].outcome = "minted"

SleepIndexes == {k \in 1..Len(last.calls) : last.calls[k] = "sleep"}

\* C13: the loop pauses once after every address but the last, whatever the
\* address's outcome: after i of N addresses it has paused i times if i < N
\* and N - 1 times if i = N, and a pause is the last thing an iteration does.
C13_PausesBetweenAddresses ==
    /\ i < Len(qualified_addresses) => sleeps = i
    /\ (i > 0 /\ i = Len(qualified_addresses)) => sleeps = Len(qualified_addresses) - 1
    /\ Iterated
          => /\ Cardinality(SleepIndexes) = (IF i < Len(qualified_addresses) THEN 1 ELSE 0)
             /\ SleepIndexes \subseteq {Len(last.calls)}

C13_Witness ==
    /\ pc = "done"
    /\ Len(outcomes) = 3
    /\ sleeps = 2
    /\ outcomes[1].outcome = "skipped"
    /\ outcomes[2].outcome = "exception"

RECURSIVE OutcomeCount(_, _)
OutcomeCount(seq, kinds) ==
    IF seq = <<>> THEN 0
    ELSE (IF Head(seq).outcome \in kinds THEN 1 ELSE 0) + OutcomeCount(Tail(seq), kinds)

ChainCallsOf(calls) == SelectSeq(calls, LAMBDA c : c \in Stages)

\* The chain calls an iteration with this outcome makes.
ExpectedChainCalls(outcome, stage) ==
    CASE outcome = "skipped" -> <<"balanceOf">>
      [] outcome = "exception" -> CallsUpTo(stage)
      [] OTHER -> CallOrder

NotificationFailed ==
    \E k \in 1..Len(last.messages) : last.messages[k].result # "sent"

\* C14: how a notification ends (no credentials, a response other than 200, an
\* exception in the post, or delivery) has no effect on minting: in every
\* state, after failed notifications too, the nonce and the two tallies are
\* what the outcomes the chain client produced determine, each iteration makes
\* the chain calls of its outcome, and the run goes on to the next address or
\* to the summary.
C14_NotifierFailureIsHarmless ==
    /\ pc # "crashed"
    /\ pc = "critical" => SetupRaised
    /\ nonce = initial_nonce + OutcomeCount(outcomes, {"minted", "rejected"})
    /\ Len(successful_mints) = OutcomeCount(outcomes, {"minted"})
    /\ Len(failed_mints) = OutcomeCount(outcomes, {"rejected"})
    /\ balance_queries = Len(outcomes)
    /\ Iterated
          => /\ ChainCallsOf(last.calls) = ExpectedChainCalls(last.outcome, last.stage)
             /\ pc = (IF i < Len(qualified_addresses) THEN "loop" ELSE "summary")
    /\ (pc = "done" /\ qualified_addresses # <<>> /\ last.op # "critical")
          => Len(outcomes) = (IF PRIVATE_KEY /\ CONTRACT_ADDRESS
                              THEN Len(qualified_addresses) ELSE 0)

C14_Witness ==
    /\ Iterated
    /\ last.messages[1].result = "exception"
    /\ last.outcome = "minted"
    /\ outcomes[1].outcome = "rejected"
    /\ pc = "loop"

Canonicalizable(cell) == IsString(cell) /\ IsHexAddress(Lower(cell))

RowIncluded(row) == row.points >= 35 /\ Canonicalizable(row.wallet)

\* The addresses of the included rows, row by row in the table's order.
RECURSIVE IncludedAddresses(_)
IncludedAddresses(rows) ==
    IF rows = <<>> THEN <<>>
    ELSE (IF RowIncluded(Head(rows)) THEN <<ToChecksum(Lower(Head(rows).wallet))>> ELSE <<>>)
         \o IncludedAddresses(Tail(rows))

\* C15: for a readable table the qualified sequence holds, in row order and
\* with repetitions kept, the canonical address of exactly the rows whose score
\* is at least 35 and whose address can be made canonical.
C15_FilterKeepsExactlyQualified ==
    (pc = "loaded" /\ csv.readable)
        => /\ qualified_addresses = IncludedAddresses(csv.rows)
           /\ \A a \in Addresses :
                 Cardinality({k \in 1..Len(qualified_addresses) : qualified_addresses[k] = a})
                 = Cardinality({k \in 1..Len(csv.rows) :
                                   /\ RowIncluded(csv.rows[k])
                                   /\ ToChecksum(Lower(csv.rows[k].wallet)) = a})

C15_Witness ==
    /\ pc = "loaded"
    /\ csv.rows = <<[wallet |-> "0xAA", points |-> 35], [wallet |-> "0xaa", points |-> 36]>>
    /\ qualified_addresses = <<"0xAa", "0xAa">>

\* The addresses, in processing order, of the outcomes of the given kinds.
AddressesOf(seq, kinds) ==
    LET chosen == SelectSeq(seq, LAMBDA o : o.outcome \in kinds)
    IN [k \in 1..Len(chosen) |-> chosen[k].address]

ListedAddresses(list) == [k \in 1..Len(list) |-> list[k].address]

\* C16 as claimed: the success list has one entry per Minted address and the
\* failure list one entry per address that failed, by a confirmed rejection or
\* by an exception, both in processing order; the totals of the summary are the
\* lengths of the two lists.
C16_ReportReflectsOutcomes ==
    /\ ListedAddresses(successful_mints) = AddressesOf(outcomes, {"minted"})
    /\ ListedAddresses(failed_mints) = AddressesOf(outcomes, {"rejected", "exception"})
    /\ last.op = "summary"
          => /\ last.messages[1].message.successful = Len(successful_mints)
             /\ last.messages[1].message.failed = Len(failed_mints)

\* C17: the transaction count is read once, by the set-up and so before any
\* balance query; no iteration reads it, and the nonce an iteration is given
\* is the initial one plus what the loop itself added.
C17_TransactionCountReadOnce ==
    /\ txcount_reads <= 1
    /\ balance_queries > 0 => txcount_reads = 1
    /\ (last.op = "setup" /\ last.outcome = "none")
          => /\ txcount_reads = 1
             /\ balance_queries = 0
             /\ nonce = initial_nonce
    /\ Iterated
          => /\ \A k \in 1..Len(last.calls) : last.calls[k] # "get_transaction_count"
             /\ last.nonce_before
                = initial_nonce
                  + OutcomeCount(SubSeq(outcomes, 1, Len(outcomes) - 1), {"minted", "rejected"})
    /\ nonce = initial_nonce + OutcomeCount(outcomes, {"minted", "rejected"})

C17_Witness ==
    /\ Iterated
    /\ Len(outcomes) = 3
    /\ txcount_reads = 1
    /\ initial_nonce = 1
    /\ last.nonce_before = 3
    /\ nonce = 3

\* C19 as claimed: on every path the successful and failed counts shown in the
\* notification of an address are the lengths of the two lists once the
\* address's outcome has been folded in.
C19_AnnouncedTalliesAreActual ==
    Iterated
        => /\ last.messages[1].message.successful = Len(successful_mints)
           /\ last.messages[1].message.failed = Len(failed_mints)

MintsOf(a) ==
    Cardinality({k \in 1..Len(outcomes) :
                    outcomes[k].address = a /\ outcomes[k].outcome = "minted"})

\* C20: an iteration broadcasts only after its own balance query returned 0,
\* and so, balances moving only by the run's confirmed mints, no address is
\* minted to twice in a run however often the list names it.
C20_BroadcastOnlyOnZeroBalance ==
    /\ (Iterated /\ last.sent) => last.balance = 0
    /\ (Iterated /\ BalanceReturned /\ last.balance # 0)
          => /\ ~last.sent
             /\ last.outcome = "skipped"
    /\ \A a \in Addresses :
          /\ MintsOf(a) <= 1
          /\ Cardinality({k \in 1..Len(successful_mints) : successful_mints[k].address = a}) <= 1

C20_Witness ==
    /\ Iterated
    /\ outcomes = <<[address |-> "0xAa", outcome |-> "minted"],
                    [address |-> "0xAa", outcome |-> "skipped"]>>
    /\ Len(broadcasts) = 1
    /\ last.balance = 1

Ended == pc = "done"

\* C18 as claimed: a run that has ended has sent the summary or has reported
\* an escaped exception.
C18_EndsAfterSummaryOrReport ==
    Ended => KindCount({"summary"}) > 0 \/ KindCount({"critical"}) > 0

\* C18: every call returning, the run ends; it ends after the summary, after
\* the report of an escaped exception or, the qualified list being empty, after
\* the "no qualified addresses" notification; and the loop index only ever
\* moves to the next address.
C18_RunTerminates ==
    /\ <>Ended
    /\ [](Ended => \/ /\ KindCount({"summary"}) = 1
                      /\ KindCount({"critical", "no_qualified"}) = 0
                      /\ (i = Len(qualified_addresses)
                          \/ MissingEnv(PRIVATE_KEY, CONTRACT_ADDRESS))
                   \/ /\ KindCount({"critical"}) = 1
                      /\ KindCount({"summary", "no_qualified"}) = 0
                   \/ /\ KindCount({"no_qualified"}) = 1
                      /\ KindCount({"summary", "critical"}) = 0
                      /\ qualified_addresses = <<>>)
    /\ [][i' = i \/ (i < Len(qualified_addresses) /\ i' = i + 1)]_vars

C18_Witness ==
    /\ Ended
    /\ i = 3
    /\ Len(outcomes) = 3
    /\ KindCount({"summary"}) = 1
====
